---- MODULE Spec2Model ----
(***************************************************************************)
(* State-machine model of the SaaS Landing API (src/main.py).              *)
(*                                                                         *)
(* One action per route handler.  A handler is a pure operator that takes  *)
(* the request payload, the connection handle, the stored collections and  *)
(* the outcome the database gives this request, and yields the response,   *)
(* the new collections and the list of persistence calls it made.          *)
(*                                                                         *)
(* Encodings.  Optional[T] is a sequence of length 0 (None) or 1 (a        *)
(* value).  Strings are TLA+ strings; the pictographs that open the        *)
(* diagnostic strings of test_database are written as ASCII tags ([ok],    *)
(* [no], [warn]).  A stored document is a function from field names to     *)
(* values whose domain is the set of fields the document has.              *)
(***************************************************************************)
EXTENDS Integers, Sequences, FiniteSets, TLC

VARIABLES
    db,            \* database.db: the process-wide handle, or the sentinel
    database_url,  \* os.getenv("DATABASE_URL"), an Optional string
    store,         \* the database: collection name -> sequence of documents
    req,           \* the request handled last (route, payload, db outcome)
    pre,           \* the value of store when that request arrived
    calls,         \* the persistence-adapter calls that request made
    resp           \* the response to that request

vars == <<db, database_url, store, req, pre, calls, resp>>

---------------------------------------------------------------------------
(* Bounds of the model *)

MaxUsers == 2
MaxContacts == 1
MaxPosts == 21
MaxCollections == 11
MaxTime == 1

---------------------------------------------------------------------------
(* Optional values, Python truthiness, slices *)

None == <<>>
Some(v) == <<v>>

\* `x or default` on an Optional[str]: None and "" are both falsy
OrDefault(opt, default) ==
    IF opt # None /\ opt[1] # "" THEN opt[1] ELSE default

\* s[:n] for a list or a string, n >= 0
Take(s, n) == SubSeq(s, 1, IF Len(s) < n THEN Len(s) ELSE n)

\* d.get(k, default)
Get(d, k, default) == IF k \in DOMAIN d THEN d[k] ELSE default

\* d.get(k): None when the key is absent
GetOpt(d, k) == IF k \in DOMAIN d THEN Some(d[k]) ELSE None

Digit == <<"0", "1", "2", "3", "4", "5", "6", "7", "8", "9">>

RECURSIVE Dec(_)
Dec(n) == IF n < 10 THEN Digit[n + 1] ELSE Dec(n \div 10) \o Digit[(n % 10) + 1]

IsPrefix(s, t) == Len(s) <= Len(t) /\ SubSeq(t, 1, Len(s)) = s

---------------------------------------------------------------------------
(* Persistence adapter (database.py) *)

\* database.db is an Optional handle: None is the "unavailable" sentinel
DbHandle == [name |-> "appdb"]

NoFault == "ok"
ErrNoDb == "Database not available"
ErrRejected == "insert rejected"
ErrTimeout ==
    "localhost:27017: [Errno 111] Connection refused, Timeout: 30s, Topology Description: <unknown>"
Faults == {NoFault, ErrRejected, ErrTimeout}

\* What the database gives a call made with outcome `fault`: the error
\* text of the PersistenceError, or NoFault.
Failure(handle, fault) == IF handle = None THEN ErrNoDb ELSE fault

CreateDocument(st, handle, fault, collection_name, record) ==
    IF Failure(handle, fault) # NoFault
    THEN [ok |-> FALSE, err |-> Failure(handle, fault), store |-> st]
    ELSE [ok |-> TRUE,
          id |-> Dec(Len(st[collection_name]) + 1),
          store |-> [st EXCEPT ![collection_name] = Append(@, record)]]

Matches(d, filter) ==
    \A k \in DOMAIN filter : k \in DOMAIN d /\ d[k] = filter[k]

RECURSIVE Select(_, _)
Select(docs, filter) ==
    IF docs = <<>> THEN <<>>
    ELSE IF Matches(Head(docs), filter)
         THEN <<Head(docs)>> \o Select(Tail(docs), filter)
         ELSE Select(Tail(docs), filter)

GetDocuments(st, handle, fault, collection_name, filter, limit) ==
    IF Failure(handle, fault) # NoFault
    THEN [ok |-> FALSE, err |-> Failure(handle, fault)]
    ELSE [ok |-> TRUE, docs |-> Take(Select(st[collection_name], filter), limit)]

CreateCall(collection_name) == [fn |-> "create_document", collection |-> collection_name]
GetCall(collection_name) == [fn |-> "get_documents", collection |-> collection_name]

---------------------------------------------------------------------------
(* Responses *)

Return(body) == [kind |-> "return", status |-> 200, body |-> body]
HTTPException(status_code, detail) ==
    [kind |-> "HTTPException", status |-> status_code, detail |-> detail]

Result(response, st, made) == [resp |-> response, store |-> st, calls |-> made]

---------------------------------------------------------------------------
(* Route handlers *)

ReadRoot == Return([message |-> "SaaS Landing Backend Running"])

PricingPlan(id, name, price, features, popular) ==
    [id |-> id, name |-> name, price |-> price, features |-> features,
     popular |-> popular]

\* Variant: the enterprise plan is marked popular as well
GetPricingTwoPopular ==
    Return(<<
        PricingPlan("starter", "Starter", "$9/mo",
            <<"Up to 3 projects", "Basic analytics", "Email support">>, FALSE),
        PricingPlan("pro", "Pro", "$29/mo",
            <<"Unlimited projects", "Advanced analytics", "Priority support",
              "Team seats">>, TRUE),
        PricingPlan("enterprise", "Enterprise", "Custom",
            <<"SAML SSO", "Dedicated support", "Custom limits", "Onboarding">>,
            TRUE) >>)

GetPricing ==
    Return(<<
        PricingPlan("starter", "Starter", "$9/mo",
            <<"Up to 3 projects", "Basic analytics", "Email support">>, FALSE),
        PricingPlan("pro", "Pro", "$29/mo",
            <<"Unlimited projects", "Advanced analytics", "Priority support",
              "Team seats">>, TRUE),
        PricingPlan("enterprise", "Enterprise", "Custom",
            <<"SAML SSO", "Dedicated support", "Custom limits", "Onboarding">>,
            FALSE) >>)

User(name, email, password_hash) ==
    [name |-> name, email |-> email, password_hash |-> password_hash]

AuthResponse(message, user_email) == [message |-> message, user_email |-> user_email]

\* Variant: the raw password is stored, without the prefix
RegisterUserRawPassword(payload, st, handle, fault) ==
    LET user == User(OrDefault(payload.name, "User"), payload.email, payload.password)
        r == CreateDocument(st, handle, fault, "user", user)
    IN  IF ~r.ok
        THEN Result(HTTPException(500, r.err), r.store, <<CreateCall("user")>>)
        ELSE Result(Return(AuthResponse("Registered successfully", payload.email)),
                    r.store, <<CreateCall("user")>>)

\* Variant: a user registered again replaces the record with the same email
RegisterUserUpsert(payload, st, handle, fault) ==
    LET password_hash == "hash::" \o payload.password
        user == User(OrDefault(payload.name, "User"), payload.email, password_hash)
        others == SelectSeq(st["user"], LAMBDA u : u.email # payload.email)
        r == CreateDocument([st EXCEPT !["user"] = others], handle, fault, "user", user)
    IN  IF ~r.ok
        THEN Result(HTTPException(500, r.err), st, <<CreateCall("user")>>)
        ELSE Result(Return(AuthResponse("Registered successfully", payload.email)),
                    r.store, <<CreateCall("user")>>)

RegisterUser(payload, st, handle, fault) ==
    LET password_hash == "hash::" \o payload.password
        user == User(OrDefault(payload.name, "User"), payload.email, password_hash)
        r == CreateDocument(st, handle, fault, "user", user)
    IN  IF ~r.ok
        THEN Result(HTTPException(500, r.err), r.store, <<CreateCall("user")>>)
        ELSE Result(Return(AuthResponse("Registered successfully", payload.email)),
                    r.store, <<CreateCall("user")>>)

\* Variant: the credentials are looked up among the registered users
LoginUserChecked(payload, st) ==
    IF \E i \in 1..Len(st["user"]) :
           /\ st["user"][i].email = payload.email
           /\ st["user"][i].password_hash = "hash::" \o payload.password
    THEN Result(Return(AuthResponse("Logged in", payload.email)), st, <<GetCall("user")>>)
    ELSE Result(HTTPException(401, "Invalid credentials"), st, <<GetCall("user")>>)

LoginUser(payload, st) ==
    Result(Return(AuthResponse("Logged in", payload.email)), st, <<>>)

ContactMessage(name, email, message) ==
    [name |-> name, email |-> email, message |-> message]

ContactResponse(message) == [message |-> message]

\* Variant: a failed insert is swallowed and the success message returned
SubmitContactSwallowsError(msg, st, handle, fault) ==
    LET r == CreateDocument(st, handle, fault, "contactmessage", msg)
    IN  Result(Return(ContactResponse("Thanks! We'll be in touch.")),
               r.store, <<CreateCall("contactmessage")>>)

\* Variant: the insert is made twice
SubmitContactTwice(msg, st, handle, fault) ==
    LET r1 == CreateDocument(st, handle, fault, "contactmessage", msg)
        r == CreateDocument(r1.store, handle, fault, "contactmessage", msg)
    IN  IF ~r.ok
        THEN Result(HTTPException(500, r.err), r.store, <<CreateCall("contactmessage")>>)
        ELSE Result(Return(ContactResponse("Thanks! We'll be in touch.")),
                    r.store, <<CreateCall("contactmessage")>>)

SubmitContact(msg, st, handle, fault) ==
    LET r == CreateDocument(st, handle, fault, "contactmessage", msg)
    IN  IF ~r.ok
        THEN Result(HTTPException(500, r.err), r.store, <<CreateCall("contactmessage")>>)
        ELSE Result(Return(ContactResponse("Thanks! We'll be in touch.")),
                    r.store, <<CreateCall("contactmessage")>>)

BlogOut(title, slug, excerpt, content, author, tags, published, published_at) ==
    [title |-> title, slug |-> slug, excerpt |-> excerpt, content |-> content,
     author |-> author, tags |-> tags, published |-> published,
     published_at |-> published_at]

BlogLimit == 20

DemoPosts(now) ==
    << BlogOut("Welcome to our blog", "welcome",
               Some("Insights on building modern SaaS."),
               "This is a demo post. Connect the database to fetch real posts.",
               "Team", <<"saas", "product">>, TRUE, Some(now)) >>

BlogOutOf(d) ==
    BlogOut(Get(d, "title", "Untitled"), Get(d, "slug", "post"), GetOpt(d, "excerpt"),
            Get(d, "content", ""), Get(d, "author", ""), Get(d, "tags", <<>>),
            Get(d, "published", FALSE), GetOpt(d, "published_at"))

\* Variant: a failed read is answered 500, as in register and contact
ListBlogPostsPropagates(st, handle, fault, now) ==
    LET r == GetDocuments(st, handle, fault, "blogpost", [published |-> TRUE], BlogLimit)
    IN  IF ~r.ok
        THEN Result(HTTPException(500, r.err), st, <<GetCall("blogpost")>>)
        ELSE Result(Return([i \in 1..Len(r.docs) |-> BlogOutOf(r.docs[i])]),
                    st, <<GetCall("blogpost")>>)

\* Variant: the query has no filter
ListBlogPostsUnfiltered(st, handle, fault, now) ==
    LET r == GetDocuments(st, handle, fault, "blogpost", <<>>, BlogLimit)
    IN  IF ~r.ok
        THEN Result(Return(DemoPosts(now)), st, <<GetCall("blogpost")>>)
        ELSE Result(Return([i \in 1..Len(r.docs) |-> BlogOutOf(r.docs[i])]),
                    st, <<GetCall("blogpost")>>)

\* Variant: the demo post also stands in for an empty result
ListBlogPostsDemoWhenEmpty(st, handle, fault, now) ==
    LET r == GetDocuments(st, handle, fault, "blogpost", [published |-> TRUE], BlogLimit)
    IN  IF ~r.ok \/ r.docs = <<>>
        THEN Result(Return(DemoPosts(now)), st, <<GetCall("blogpost")>>)
        ELSE Result(Return([i \in 1..Len(r.docs) |-> BlogOutOf(r.docs[i])]),
                    st, <<GetCall("blogpost")>>)

ListBlogPosts(st, handle, fault, now) ==
    LET r == GetDocuments(st, handle, fault, "blogpost", [published |-> TRUE], BlogLimit)
    IN  IF ~r.ok
        THEN Result(Return(DemoPosts(now)), st, <<GetCall("blogpost")>>)
        ELSE Result(Return([i \in 1..Len(r.docs) |-> BlogOutOf(r.docs[i])]),
                    st, <<GetCall("blogpost")>>)

CollectionsLimit == 10
ErrorLimit == 50

\* db.list_collection_names(): the names, or the error raised
ListCollectionNames(names, fault) ==
    IF fault # NoFault THEN [ok |-> FALSE, err |-> fault]
    ELSE [ok |-> TRUE, names |-> names]

\* Variant: neither the collection list nor the error text is cut
TestDatabaseUncut(handle, url, names, fault) ==
    LET response ==
            [backend |-> "[ok] Running", database |-> "[no] Not Available",
             database_url |-> None, database_name |-> None,
             connection_status |-> "Not Connected", collections |-> <<>>]
        r == ListCollectionNames(names, fault)
    IN  IF handle # None
        THEN IF r.ok
             THEN Return([response EXCEPT
                             !.collections = r.names,
                             !.database = "[ok] Connected & Working"])
             ELSE Return([response EXCEPT
                             !.database = "[warn] Connected but Error: " \o r.err])
        ELSE Return([response EXCEPT !.database = "[warn] Available but not initialized"])

TestDatabase(handle, url, names, fault) ==
    LET response ==
            [backend |-> "[ok] Running", database |-> "[no] Not Available",
             database_url |-> None, database_name |-> None,
             connection_status |-> "Not Connected", collections |-> <<>>]
        connected ==
            [response EXCEPT
                !.database = "[ok] Available",
                !.database_url =
                    Some(IF url # None /\ url[1] # "" THEN "[ok] Set" ELSE "[no] Not Set"),
                !.database_name =
                    Some(IF "name" \in DOMAIN handle[1] THEN handle[1].name
                         ELSE "[ok] Connected"),
                !.connection_status = "Connected"]
        r == ListCollectionNames(names, fault)
    IN  IF handle # None
        THEN IF r.ok
             THEN Return([connected EXCEPT
                             !.collections = Take(r.names, CollectionsLimit),
                             !.database = "[ok] Connected & Working"])
             ELSE Return([connected EXCEPT
                             !.database = "[warn] Connected but Error: "
                                          \o Take(r.err, ErrorLimit)])
        ELSE Return([response EXCEPT !.database = "[warn] Available but not initialized"])

---------------------------------------------------------------------------
(* Inputs: validated request payloads and the documents of the database *)

AuthRequest(name, email, password) ==
    [name |-> name, email |-> email, password |-> password]

AuthRequests ==
    { AuthRequest(None, "ann@example.com", "pw"),
      AuthRequest(Some(""), "bob@example.com", ""),
      AuthRequest(Some("Ann"), "ann@example.com", "hash::pw") }

ContactMessages ==
    { ContactMessage("Ann", "ann@example.com", "Hello"),
      ContactMessage("Bob", "bob@example.com", "") }

Times == 0..MaxTime

DatabaseUrl == "mongodb://localhost:27017"

\* The i-th document of the blogpost collection, of one of five shapes:
\* complete and published; published with no tags, excerpt or date; a
\* draft; a document with no field but published; one with no published
\* field at all.
BlogDoc(shape, i) ==
    LET base == [title |-> "Title " \o Dec(i), slug |-> "post-" \o Dec(i),
                 content |-> "Content " \o Dec(i), author |-> "Ann"]
    IN  CASE shape = 0 ->
                base @@ [excerpt |-> "Excerpt " \o Dec(i), tags |-> <<"saas", Dec(i)>>,
                         published |-> TRUE, published_at |-> i % (MaxTime + 1)]
          [] shape = 1 -> base @@ [published |-> TRUE]
          [] shape = 2 -> base @@ [tags |-> <<"draft">>, published |-> FALSE]
          [] shape = 3 -> [published |-> TRUE]
          [] OTHER -> base

\* "plain": every document published with no tags; "drafts": none
\* published; "mixed": the shapes in turn
BlogCollection(pattern, n) ==
    [i \in 1..n |->
        BlogDoc(CASE pattern = "plain" -> 1 [] pattern = "drafts" -> 2 [] OTHER -> i % 5, i)]

BlogSizes == {0, 1, 5, BlogLimit, MaxPosts}

BlogCollections == { BlogCollection(p, n) : p \in {"plain", "drafts", "mixed"}, n \in BlogSizes }

CollectionNames(n) == [i \in 1..n |-> "collection" \o Dec(i)]

CollectionCounts == {0, 3, CollectionsLimit, MaxCollections}

---------------------------------------------------------------------------
(* The state machine *)

Init ==
    /\ db \in {None, Some(DbHandle)}
    /\ database_url \in {None, Some(""), Some(DatabaseUrl)}
    /\ db # None => database_url = Some(DatabaseUrl)
    /\ \E posts \in BlogCollections :
          /\ db = None => posts = <<>>
          /\ store = [user |-> <<>>, contactmessage |-> <<>>, blogpost |-> posts]
    /\ req = [op |-> "none"]
    /\ pre = store
    /\ calls = <<>>
    /\ resp = [kind |-> "none", status |-> 0]

\* One request handled from arrival to response
Handle(request, result) ==
    /\ req' = request
    /\ pre' = store
    /\ store' = result.store
    /\ calls' = result.calls
    /\ resp' = result.resp
    /\ UNCHANGED <<db, database_url>>

Root ==
    Handle([op |-> "root"], Result(ReadRoot, store, <<>>))

Pricing ==
    Handle([op |-> "pricing"], Result(GetPricing, store, <<>>))

Register ==
    /\ Len(store["user"]) < MaxUsers
    /\ \E payload \in AuthRequests, fault \in Faults :
          Handle([op |-> "register", payload |-> payload, fault |-> fault],
                 RegisterUser(payload, store, db, fault))

Login ==
    \E payload \in AuthRequests :
        Handle([op |-> "login", payload |-> payload], LoginUser(payload, store))

Contact ==
    /\ Len(store["contactmessage"]) < MaxContacts
    /\ \E msg \in ContactMessages, fault \in Faults :
          Handle([op |-> "contact", payload |-> msg, fault |-> fault],
                 SubmitContact(msg, store, db, fault))

Blog ==
    \E fault \in Faults, now \in Times :
        Handle([op |-> "blog", fault |-> fault, now |-> now],
               ListBlogPosts(store, db, fault, now))

Diagnostic ==
    \E fault \in Faults, n \in CollectionCounts :
        Handle([op |-> "test", fault |-> fault, names |-> CollectionNames(n)],
               Result(TestDatabase(db, database_url, CollectionNames(n), fault),
                      store, <<>>))

Next ==
    \/ Root
    \/ Pricing
    \/ Register
    \/ Login
    \/ Contact
    \/ Blog
    \/ Diagnostic

Spec == Init /\ [][Next]_vars

---------------------------------------------------------------------------
(* Properties.  Each is stated of the request handled last: req is the     *)
(* request, pre the collections when it arrived, store the collections     *)
(* after it, calls the adapter calls it made and resp its response.        *)

\* The database accepts (does not accept) the persistence call of the request
Accepted == Failure(db, req.fault) = NoFault
Refused == Failure(db, req.fault) # NoFault

Published(docs) == Select(docs, [published |-> TRUE])

\* C1 (as stated): after a register request whose insert is accepted, the
\* response is a success echoing the email, and the user collection holds a
\* record with that email, password_hash "hash::" followed by the raw
\* password, and name the submitted name, or "User" when none was given.
C1_AsStated ==
    (req.op = "register" /\ Accepted) =>
        /\ resp = Return(AuthResponse("Registered successfully", req.payload.email))
        /\ \E i \in 1..Len(store["user"]) :
              /\ store["user"][i].email = req.payload.email
              /\ store["user"][i].password_hash = "hash::" \o req.payload.password
              /\ store["user"][i].name =
                    (IF req.payload.name = None THEN "User" ELSE req.payload.name[1])

\* C1 (amended): as C1, except that the stored name is the submitted name
\* only when one was given and it is not empty; it is "User" when no name
\* or the empty name was submitted.  The record is the one appended by
\* this request.
C1_RegisterStoresPrefixedHash ==
    (req.op = "register" /\ Accepted) =>
        /\ resp = Return(AuthResponse("Registered successfully", req.payload.email))
        /\ Len(store["user"]) = Len(pre["user"]) + 1
        /\ LET u == store["user"][Len(store["user"])]
           IN  /\ u.email = req.payload.email
               /\ u.password_hash = "hash::" \o req.payload.password
               /\ u.name = (IF req.payload.name \in {None, Some("")} THEN "User"
                            ELSE req.payload.name[1])

C1_Witness ==
    /\ req.op = "register"
    /\ Accepted
    /\ req.payload.name = Some("")
    /\ store["user"] # pre["user"]
    /\ resp.kind = "return"

\* C2: when the create_document call of a register or contact request
\* fails, the handler answers 500 with the error text, does not return the
\* success response, made that one call only, and every stored record is
\* as it was.
C2_PersistenceFailureIs500 ==
    (req.op \in {"register", "contact"} /\ Refused) =>
        /\ resp.kind = "HTTPException"
        /\ resp.status = 500
        /\ resp.detail = Failure(db, req.fault)
        /\ Len(calls) = 1
        /\ calls[1].fn = "create_document"
        /\ store = pre

C2_Witness ==
    /\ req.op = "contact"
    /\ db # None
    /\ req.fault = ErrRejected
    /\ resp.status = 500
    /\ store["user"] # <<>>

\* C3: a login request gets the success message echoing its email whatever
\* the database state and whoever is registered; it makes no persistence
\* call and changes no stored record.
C3_LoginAlwaysSucceeds ==
    (req.op = "login") =>
        /\ resp = Return(AuthResponse("Logged in", req.payload.email))
        /\ calls = <<>>
        /\ store = pre

\* a login for an email nobody registered, with other users registered
C3_Witness ==
    /\ req.op = "login"
    /\ resp.kind = "return"
    /\ store["user"] # <<>>
    /\ \A i \in 1..Len(store["user"]) : store["user"][i].email # req.payload.email

\* C4: a contact submission whose insert is accepted returns the fixed
\* message and adds exactly one ContactMessage record, holding the
\* submitted name, email and message, with one insert and no other change.
C4_ContactCreatesExactlyOne ==
    (req.op = "contact" /\ Accepted) =>
        /\ resp = Return([message |-> "Thanks! We'll be in touch."])
        /\ Len(store["contactmessage"]) = Len(pre["contactmessage"]) + 1
        /\ SubSeq(store["contactmessage"], 1, Len(pre["contactmessage"]))
              = pre["contactmessage"]
        /\ LET m == store["contactmessage"][Len(store["contactmessage"])]
           IN  /\ m.name = req.payload.name
               /\ m.email = req.payload.email
               /\ m.message = req.payload.message
        /\ calls = <<CreateCall("contactmessage")>>
        /\ store["user"] = pre["user"]
        /\ store["blogpost"] = pre["blogpost"]

C4_Witness ==
    /\ req.op = "contact"
    /\ Accepted
    /\ resp.kind = "return"
    /\ Len(store["contactmessage"]) = 1
    /\ store["contactmessage"][1].message = "Hello"

\* C5: when the get_documents call of a blog request fails, for whatever
\* reason, the response is a success with exactly one post, of slug
\* "welcome" and published.
C5_BlogFallbackOnFailure ==
    (req.op = "blog" /\ Refused) =>
        /\ resp.kind = "return"
        /\ resp.status = 200
        /\ Len(resp.body) = 1
        /\ resp.body[1].slug = "welcome"
        /\ resp.body[1].published = TRUE

\* the read is rejected on a live handle while published posts exist
C5_Witness ==
    /\ req.op = "blog"
    /\ db # None
    /\ req.fault = ErrTimeout
    /\ Published(store["blogpost"]) # <<>>
    /\ Len(resp.body) = 1

\* C6: when the get_documents call of a blog request succeeds, the response
\* holds one post per record get_documents returns for "blogpost" with
\* filter published = true and limit 20, in the same order: at most 20,
\* none unpublished, no demo post, the fields of each record carried over,
\* and tags = [] for every record with no tags field.
C6_BlogListsReturnedRecords ==
    (req.op = "blog" /\ Accepted) =>
        LET docs == GetDocuments(pre, db, NoFault, "blogpost",
                                 [published |-> TRUE], 20).docs
        IN  /\ resp.kind = "return"
            /\ Len(resp.body) = Len(docs)
            /\ Len(resp.body) <= 20
            /\ \A i \in 1..Len(docs) :
                  /\ resp.body[i].published = TRUE
                  /\ resp.body[i].slug # "welcome"
                  /\ "slug" \in DOMAIN docs[i] => resp.body[i].slug = docs[i].slug
                  /\ "title" \in DOMAIN docs[i] => resp.body[i].title = docs[i].title
                  /\ "tags" \in DOMAIN docs[i] => resp.body[i].tags = docs[i].tags
                  /\ "tags" \notin DOMAIN docs[i] => resp.body[i].tags = <<>>
            /\ store = pre

\* more than 20 published posts without tags: the first 20, each with tags = []
C6_Witness ==
    /\ req.op = "blog"
    /\ Accepted
    /\ Len(Published(store["blogpost"])) > 20
    /\ Len(resp.body) = 20
    /\ \A i \in 1..20 : resp.body[i].tags = <<>> /\ resp.body[i].slug = "post-" \o Dec(i)

\* five published posts without tags yield exactly those five, tags = []
C6_FivePlainPosts ==
    /\ req.op = "blog"
    /\ Accepted
    /\ Len(store["blogpost"]) = 5
    /\ Len(resp.body) = 5
    /\ \A i \in 1..5 : resp.body[i].tags = <<>>

\* a collection with drafts and published posts: the drafts are left out
C6_DraftsLeftOut ==
    /\ req.op = "blog"
    /\ Accepted
    /\ resp.body # <<>>
    /\ Len(resp.body) < Len(store["blogpost"])
    /\ \E i \in 1..Len(resp.body) : resp.body[i].title = "Untitled"

\* C7: the diagnostic request never raises: it returns a status object in
\* every database state, its collections field has at most 10 entries, and
\* an error message it reports is cut to at most 50 characters.
C7_DiagnosticNeverRaises ==
    (req.op = "test") =>
        /\ resp.kind = "return"
        /\ resp.status = 200
        /\ Len(resp.body.collections) <= 10
        /\ IsPrefix(resp.body.collections, req.names)
        /\ (db # None /\ req.fault # NoFault) =>
              /\ Len(resp.body.database) <= Len("[warn] Connected but Error: ") + 50
              /\ IsPrefix(resp.body.database,
                          "[warn] Connected but Error: " \o req.fault)
        /\ (db # None /\ req.fault = NoFault) =>
              resp.body.database = "[ok] Connected & Working"
        /\ (db = None) =>
              /\ resp.body.database = "[warn] Available but not initialized"
              /\ resp.body.collections = <<>>

\* more than 10 collections on a live handle: 10 are reported
C7_Witness ==
    /\ req.op = "test"
    /\ db # None
    /\ req.fault = NoFault
    /\ Len(req.names) > 10
    /\ Len(resp.body.collections) = 10

\* listing fails with a message of more than 50 characters: it is cut
C7_LongErrorCut ==
    /\ req.op = "test"
    /\ db # None
    /\ req.fault # NoFault
    /\ Len(req.fault) > 50
    /\ Len(resp.body.database) = Len("[warn] Connected but Error: ") + 50

\* the handle is the sentinel
C7_Sentinel ==
    /\ req.op = "test"
    /\ db = None
    /\ resp.kind = "return"

\* C8: in every state the pricing request returns the list of exactly 3
\* plans starter, pro, enterprise, of which exactly one is popular: pro.
C8_PricingThreePlansProPopular ==
    (req.op = "pricing") =>
        /\ resp.kind = "return"
        /\ Len(resp.body) = 3
        /\ [i \in 1..3 |-> resp.body[i].id] = <<"starter", "pro", "enterprise">>
        /\ Cardinality({i \in 1..3 : resp.body[i].popular}) = 1
        /\ \A i \in 1..3 : resp.body[i].popular <=> resp.body[i].id = "pro"

\* pricing asked after users and a contact message were stored
C8_Witness ==
    /\ req.op = "pricing"
    /\ store["user"] # <<>>
    /\ store["contactmessage"] # <<>>
    /\ Len(resp.body) = 3

\* The response list_blog_posts gives to the request when persistence is
\* unreachable
UnreachableBlogResponse == ListBlogPosts(pre, None, ErrNoDb, req.now).resp

\* C9 (as stated): the response of a blog request handled with persistence
\* available and zero published posts is the same as the response produced
\* when persistence is unreachable.
C9_AsStated ==
    (req.op = "blog" /\ Accepted /\ Published(pre["blogpost"]) = <<>>) =>
        resp = UnreachableBlogResponse

\* C9 (amended): both responses are successes that carry no error, but they
\* differ: with persistence available and zero published posts the
\* response is the empty list, while with persistence unreachable it is
\* the list of one demo post.
C9_EmptyListDiffersFromFallback ==
    (req.op = "blog" /\ Accepted /\ Published(pre["blogpost"]) = <<>>) =>
        /\ resp.kind = "return"
        /\ resp.status = 200
        /\ resp.body = <<>>
        /\ UnreachableBlogResponse.kind = "return"
        /\ UnreachableBlogResponse.status = 200
        /\ Len(UnreachableBlogResponse.body) = 1
        /\ resp # UnreachableBlogResponse

\* the collection holds drafts only
C9_Witness ==
    /\ req.op = "blog"
    /\ Accepted
    /\ store["blogpost"] # <<>>
    /\ Published(store["blogpost"]) = <<>>
    /\ resp.body = <<>>

\* C10: a stored User or ContactMessage is never modified or deleted: both
\* collections only grow, only register adds a User, only contact adds a
\* ContactMessage, and pricing, login, blog and diagnostic requests leave
\* every stored record and the connection handle as they were.
C10_RecordsOnlyGrow ==
    [][ /\ IsPrefix(store["user"], store'["user"])
        /\ IsPrefix(store["contactmessage"], store'["contactmessage"])
        /\ store'["user"] # store["user"] => req'.op = "register"
        /\ store'["contactmessage"] # store["contactmessage"] => req'.op = "contact"
        /\ req'.op \in {"root", "pricing", "login", "blog", "test"} => store' = store
        /\ db' = db ]_vars

\* a diagnostic request with a user and a contact message stored
C10_Witness ==
    /\ req.op = "test"
    /\ Len(store["user"]) = MaxUsers
    /\ store["contactmessage"] # <<>>
    /\ store = pre

====
